---- MODULE Spec2Model ----
(***************************************************************************)
(* Model of the fixed LangGraph agent (src/agent_fixed.py): the CLI turn   *)
(* loop, the graph nodes planner / gate / approval_router / ask_approval / *)
(* call_tool / reflect_retry / finalize and the graph's edges.             *)
(*                                                                         *)
(* Text is a sequence of one-character strings, so that strip, upper,      *)
(* lower, split, startswith and substring tests are computed as Python     *)
(* computes them.  An Optional value is <<>> (None) or <<x>>.              *)
(***************************************************************************)
EXTENDS Integers, Sequences, FiniteSets, TLC

VARIABLES state, pc, branch_write_kept, turn, calls, cmd_turn, cmd_plan,
          prev_answer, recoveries

vars == <<state, pc, branch_write_kept, turn, calls, cmd_turn, cmd_plan,
          prev_answer, recoveries>>

\* ---------------------------------------------------------------------
\* Bounds of the exploration
\* ---------------------------------------------------------------------
MaxTurns == 3

\* No further line is read once this many tool calls were made
MaxCalls == 3

\* ---------------------------------------------------------------------
\* Optional values
\* ---------------------------------------------------------------------
None == <<>>

Some(x) == <<x>>

\* ---------------------------------------------------------------------
\* Python str operations on sequences of characters
\* ---------------------------------------------------------------------
LowerLetters == <<"a","b","c","d","e","f","g","h","i","j","k","l","m",
                  "n","o","p","q","r","s","t","u","v","w","x","y","z">>

UpperLetters == <<"A","B","C","D","E","F","G","H","I","J","K","L","M",
                  "N","O","P","Q","R","S","T","U","V","W","X","Y","Z">>

UpperChar(c) ==
    IF \E i \in 1..26 : LowerLetters[i] = c
    THEN UpperLetters[CHOOSE i \in 1..26 : LowerLetters[i] = c]
    ELSE c

LowerChar(c) ==
    IF \E i \in 1..26 : UpperLetters[i] = c
    THEN LowerLetters[CHOOSE i \in 1..26 : UpperLetters[i] = c]
    ELSE c

Upper(s) == [i \in 1..Len(s) |-> UpperChar(s[i])]

Lower(s) == [i \in 1..Len(s) |-> LowerChar(s[i])]

\* str.strip(): drop leading and trailing whitespace
Strip(s) ==
    IF \A i \in 1..Len(s) : s[i] = " " THEN <<>>
    ELSE LET a == CHOOSE i \in 1..Len(s) :
                      s[i] # " " /\ \A j \in 1..(i-1) : s[j] = " "
             b == CHOOSE i \in 1..Len(s) :
                      s[i] # " " /\ \A j \in (i+1)..Len(s) : s[j] = " "
         IN  SubSeq(s, a, b)

\* str.startswith(p)
StartsWith(s, p) == Len(s) >= Len(p) /\ SubSeq(s, 1, Len(p)) = p

\* p in s (substring test)
Contains(s, p) ==
    \E i \in 1..(Len(s) - Len(p) + 1) : SubSeq(s, i, i + Len(p) - 1) = p

\* str.split(sep, maxsplit) for a one-character separator; maxsplit = -1
\* splits at every separator
RECURSIVE Split(_, _, _)
Split(s, sep, maxsplit) ==
    IF maxsplit = 0 \/ ~(\E i \in 1..Len(s) : s[i] = sep) THEN <<s>>
    ELSE LET i == CHOOSE k \in 1..Len(s) :
                      s[k] = sep /\ \A j \in 1..(k-1) : s[j] # sep
         IN  <<SubSeq(s, 1, i-1)>>
                 \o Split(SubSeq(s, i+1, Len(s)), sep, maxsplit - 1)

Last(q) == q[Len(q)]

\* ---------------------------------------------------------------------
\* Text literals
\* ---------------------------------------------------------------------
APPROVE == <<"A","P","P","R","O","V","E">>

DENY == <<"D","E","N","Y">>

ApprovalTokens == {APPROVE, DENY}

ExitWords == {<<"e","x","i","t">>, <<"q","u","i","t">>}

ReadPrefix == <<"r","e","a","d"," ">>

DeletePrefix == <<"d","e","l","e","t","e"," ">>

GetPrefix == <<"g","e","t"," ">>

UpdatePrefix == <<"u","p","d","a","t","e"," ">>

NotFoundNeedle == <<"n","o","t"," ","f","o","u","n","d">>

UnknownToolError == <<"U","n","k","n","o","w","n"," ","t","o","o","l",
                      " ","e","r","r","o","r">>

DESTRUCTIVE_TOOLS == {"delete_file", "update_record"}

MAX_RETRIES == 2

\* ---------------------------------------------------------------------
\* What the user may type (the raw line read by input())
\* ---------------------------------------------------------------------
InRead == <<"r","e","a","d"," ","/","c","/","m">>

InDelete == <<"D","e","l","e","t","e"," ","/","a">>

InUpdateKey == <<"u","p","d","a","t","e"," ","k">>

InUpdateNoEq == <<"u","p","d","a","t","e"," ","k"," ","v">>

InUpdate == <<"u","p","d","a","t","e"," ","k"," ","f","=","v">>

InGet == <<"g","e","t"," ","k">>

InSearch == <<"m">>

InApprove == <<" ","A","P","P","R","O","V","E">>

InDeny == <<"d","e","n","y">>

InExit == <<"E","x","i","t">>

UserInputs == {InRead, InDelete, InUpdateKey, InUpdateNoEq, InUpdate, InGet,
               InSearch, InApprove, InDeny, InExit}

\* ---------------------------------------------------------------------
\* What a tool call may return (the CallToolResult of the MCP session)
\* ---------------------------------------------------------------------
ErrNotFound == <<"N","o","t"," ","F","o","u","n","d">>

ListVal(items) == [type |-> "list", v |-> items]

StrVal(t) == [type |-> "str", v |-> t]

RawVal(r) == [type |-> "raw", v |-> r]

ResErrNotFound ==
    [isError |-> TRUE, content |-> <<[text |-> Some(ErrNotFound)]>>,
     structuredContent |-> None]

ResErrNoText ==
    [isError |-> TRUE, content |-> <<>>, structuredContent |-> None]

ResOkEmptyList ==
    [isError |-> FALSE, content |-> <<>>,
     structuredContent |-> Some([result |-> ListVal(<<>>)])]

ResOkText ==
    [isError |-> FALSE, content |-> <<[text |-> Some(<<"o","k">>)]>>,
     structuredContent |-> None]

ToolResults == {ResErrNotFound, ResErrNoText, ResOkEmptyList, ResOkText}

\* ---------------------------------------------------------------------
\* MCP result helpers
\* ---------------------------------------------------------------------
tool_is_error(tool_result) == tool_result.isError

tool_error_text(tool_result) ==
    LET content == tool_result.content
    IN  IF Len(content) > 0 /\ content[1].text # None
           /\ Len(content[1].text[1]) > 0
        THEN content[1].text[1]
        ELSE UnknownToolError

tool_value(tool_result) ==
    LET sc == tool_result.structuredContent
        content == tool_result.content
    IN  IF sc # None /\ "result" \in DOMAIN sc[1] THEN sc[1].result
        ELSE IF Len(content) > 0 /\ content[1].text # None
             THEN StrVal(content[1].text[1])
             ELSE RawVal(tool_result)

\* ---------------------------------------------------------------------
\* AgentState and the answers
\* ---------------------------------------------------------------------
Plan(tool, args) == [tool |-> tool, args |-> args]

InitialState ==
    [user_input |-> <<>>, plan |-> None, last_tool |-> None,
     last_args |-> None, last_tool_result |-> None, last_error |-> None,
     retries |-> 0, needs_approval |-> FALSE, approval |-> None,
     final_answer |-> None, audit |-> <<>>]

AmbiguousUpdateMsg == [kind |-> "ambiguous_update"]

InvalidUpdateMsg == [kind |-> "invalid_update"]

DeniedMsg == [kind |-> "denied"]

ApprovalRequiredMsg(plan) ==
    [kind |-> "approval_required", tool |-> plan.tool, args |-> plan.args]

EmptySearchMsg(audit) == [kind |-> "empty_search", audit |-> audit]

ExhaustedMsg(err, audit) ==
    [kind |-> "exhausted", error |-> err, audit |-> audit]

NoStrategyMsg(err, audit) ==
    [kind |-> "no_strategy", error |-> err, audit |-> audit]

FailedMsg(err, audit) == [kind |-> "failed", error |-> err, audit |-> audit]

OkMsg(val, audit) == [kind |-> "ok", val |-> val, audit |-> audit]

\* A str or answer held in an Optional field is truthy when it is set and
\* not empty (every answer is a non-empty text)
Truthy(opt) == opt # None

TruthyStr(opt) == opt # None /\ Len(opt[1]) > 0

\* ---------------------------------------------------------------------
\* Nodes
\* ---------------------------------------------------------------------
\* A planner whose update branch does not check the number of parts: the
\* key-only update falls through to the default search
plan_update_unchecked(st, text) ==
    LET parts == Split(text, " ", 2)
    IN  IF Len(parts) < 3 \/ ~Contains(Strip(parts[3]), <<"=">>) THEN
            [st EXCEPT !.plan = Some(Plan("search_files", [query |-> text]))]
        ELSE LET fv == Split(Strip(parts[3]), "=", 1)
             IN  [st EXCEPT !.plan = Some(Plan("update_record",
                     [key |-> Strip(parts[2]),
                      patch |-> [field |-> fv[1], value |-> fv[2]]]))]

\* planner, the branch 'update <key> <field>=<value>'
plan_update(st, text) ==
    LET parts == Split(text, " ", 2)
    IN  IF Len(parts) < 3 THEN
            [st EXCEPT !.final_answer = Some(AmbiguousUpdateMsg)]
        ELSE LET key == Strip(parts[2])
                 kv  == Strip(parts[3])
             IN  IF ~Contains(kv, <<"=">>) THEN
                     [st EXCEPT !.final_answer = Some(InvalidUpdateMsg)]
                 ELSE LET fv == Split(kv, "=", 1)
                      IN  [st EXCEPT !.plan = Some(Plan("update_record",
                              [key |-> key,
                               patch |-> [field |-> fv[1],
                                          value |-> fv[2]]]))]

planner(st) ==
    LET text == Strip(st.user_input)
        low  == Lower(text)
    IN  IF Upper(text) \in ApprovalTokens THEN st
        ELSE IF StartsWith(low, ReadPrefix) THEN
            [st EXCEPT !.plan = Some(Plan("read_file",
                [path |-> Strip(Split(text, " ", 1)[2])]))]
        ELSE IF StartsWith(low, DeletePrefix) THEN
            [st EXCEPT !.plan = Some(Plan("delete_file",
                [path |-> Strip(Split(text, " ", 1)[2])]))]
        ELSE IF StartsWith(low, GetPrefix) THEN
            [st EXCEPT !.plan = Some(Plan("get_record",
                [key |-> Strip(Split(text, " ", 1)[2])]))]
        ELSE IF StartsWith(low, UpdatePrefix) THEN plan_update(st, text)
        ELSE [st EXCEPT !.plan = Some(Plan("search_files", [query |-> text]))]

\* A gate that does not know delete_file as destructive
gate_destructive_without_delete(st) ==
    IF Truthy(st.final_answer) THEN st
    ELSE IF st.plan = None THEN st
    ELSE [st EXCEPT !.needs_approval = st.plan[1].tool \in {"update_record"}]

\* A gate with the membership test inverted
gate_destructive_inverted(st) ==
    IF Truthy(st.final_answer) THEN st
    ELSE IF st.plan = None THEN st
    ELSE [st EXCEPT !.needs_approval = st.plan[1].tool \notin DESTRUCTIVE_TOOLS]

gate_destructive(st) ==
    IF Truthy(st.final_answer) THEN st
    ELSE IF st.plan = None THEN st
    ELSE [st EXCEPT !.needs_approval = st.plan[1].tool \in DESTRUCTIVE_TOOLS]

approval_router(st) ==
    IF ~st.needs_approval THEN st
    ELSE LET txt == Upper(Strip(st.user_input))
         IN  IF txt = APPROVE THEN [st EXCEPT !.approval = Some(TRUE)]
             ELSE IF txt = DENY THEN [st EXCEPT !.approval = Some(FALSE)]
             ELSE st

\* A routing function that asks again although approval was granted
route_after_approval_asks_again(st) ==
    IF Truthy(st.final_answer) THEN [next |-> "finalize", state |-> st]
    ELSE IF st.needs_approval THEN
        IF st.approval = Some(FALSE) THEN
            [next |-> "finalize",
             state |-> [st EXCEPT !.final_answer = Some(DeniedMsg)]]
        ELSE [next |-> "ask_approval", state |-> st]
    ELSE [next |-> "call_tool", state |-> st]

\* The routing function of the conditional edge: the label it returns and
\* the state dict as the function leaves it
route_after_approval(st) ==
    IF Truthy(st.final_answer) THEN [next |-> "finalize", state |-> st]
    ELSE IF st.needs_approval THEN
        IF st.approval = None THEN [next |-> "ask_approval", state |-> st]
        ELSE IF st.approval = Some(FALSE) THEN
            [next |-> "finalize",
             state |-> [st EXCEPT !.final_answer = Some(DeniedMsg)]]
        ELSE [next |-> "call_tool", state |-> st]
    ELSE [next |-> "call_tool", state |-> st]

ask_approval(st) ==
    [st EXCEPT !.final_answer = Some(ApprovalRequiredMsg(st.plan[1]))]

\* A call_tool without the special case of the empty search
call_tool_plain_success(st, result) ==
    LET plan == st.plan[1]
        s1   == [st EXCEPT !.last_tool = Some(plan.tool),
                           !.last_args = Some(plan.args),
                           !.last_tool_result = Some(result)]
    IN  IF tool_is_error(result) THEN
            [s1 EXCEPT !.last_error = Some(tool_error_text(result)),
                       !.audit = Append(@, [tool |-> plan.tool,
                                            args |-> plan.args, ok |-> FALSE,
                                            error |-> tool_error_text(result)])]
        ELSE
            [s1 EXCEPT !.last_error = None,
                       !.audit = Append(@, [tool |-> plan.tool,
                                            args |-> plan.args, ok |-> TRUE,
                                            result |-> tool_value(result)])]

\* A call_tool that records a failed call in last_error only, not in audit
call_tool_unaudited_failure(st, result) ==
    LET plan == st.plan[1]
        s1   == [st EXCEPT !.last_tool = Some(plan.tool),
                           !.last_args = Some(plan.args),
                           !.last_tool_result = Some(result)]
    IN  IF tool_is_error(result) THEN
            [s1 EXCEPT !.last_error = Some(tool_error_text(result))]
        ELSE
            LET val == tool_value(result)
                s2  == [s1 EXCEPT !.last_error = None,
                                  !.audit = Append(@, [tool |-> plan.tool,
                                      args |-> plan.args, ok |-> TRUE,
                                      result |-> val])]
            IN  IF plan.tool = "search_files" /\ val.type = "list"
                   /\ Len(val.v) = 0
                THEN [s2 EXCEPT !.final_answer = Some(EmptySearchMsg(s2.audit))]
                ELSE s2

\* call_tool, given the result the MCP call returned
call_tool(st, result) ==
    LET plan == st.plan[1]
        tool == plan.tool
        args == plan.args
        s1   == [st EXCEPT !.last_tool = Some(tool), !.last_args = Some(args),
                           !.last_tool_result = Some(result)]
    IN  IF tool_is_error(result) THEN
            LET err == tool_error_text(result)
            IN  [s1 EXCEPT !.last_error = Some(err),
                           !.audit = Append(@, [tool |-> tool, args |-> args,
                                                ok |-> FALSE, error |-> err])]
        ELSE
            LET val == tool_value(result)
                s2  == [s1 EXCEPT !.last_error = None,
                                  !.audit = Append(@, [tool |-> tool,
                                      args |-> args, ok |-> TRUE,
                                      result |-> val])]
            IN  IF tool = "search_files" /\ val.type = "list" /\ Len(val.v) = 0
                THEN [s2 EXCEPT !.final_answer = Some(EmptySearchMsg(s2.audit))]
                ELSE s2

\* A reflect_retry that never gives up: no check of retries, and a search
\* that failed with "not found" is searched again
reflect_retry_unbounded(st) ==
    IF Truthy(st.final_answer) THEN st
    ELSE IF ~TruthyStr(st.last_error) THEN st
    ELSE IF st.last_tool \in {Some("read_file"), Some("search_files")}
            /\ Contains(Lower(st.last_error[1]), NotFoundNeedle) THEN
        LET args == st.last_args[1]
            name == IF st.last_tool = Some("read_file")
                    THEN Last(Split(args.path, "/", -1))
                    ELSE args.query
        IN  [st EXCEPT !.audit = Append(@, [reflection |-> name]),
                       !.plan = Some(Plan("search_files", [query |-> name])),
                       !.retries = @ + 1]
    ELSE [st EXCEPT !.final_answer =
                        Some(NoStrategyMsg(st.last_error[1], st.audit))]

reflect_retry(st) ==
    IF Truthy(st.final_answer) THEN st
    ELSE IF ~TruthyStr(st.last_error) THEN st
    ELSE IF st.retries >= MAX_RETRIES THEN
        [st EXCEPT !.final_answer =
                       Some(ExhaustedMsg(st.last_error[1], st.audit))]
    ELSE LET last_tool == st.last_tool
             err == Lower(IF TruthyStr(st.last_error) THEN st.last_error[1]
                          ELSE <<>>)
         IN  IF last_tool = Some("read_file") /\ Contains(err, NotFoundNeedle)
             THEN LET missing_path == st.last_args[1].path
                      filename == Last(Split(missing_path, "/", -1))
                  IN  [st EXCEPT !.audit = Append(@, [reflection |-> filename]),
                                 !.plan = Some(Plan("search_files",
                                                    [query |-> filename])),
                                 !.retries = @ + 1]
             ELSE [st EXCEPT !.final_answer =
                                 Some(NoStrategyMsg(st.last_error[1], st.audit))]

finalize(st) ==
    IF Truthy(st.final_answer) THEN st
    ELSE IF TruthyStr(st.last_error) THEN
        [st EXCEPT !.final_answer = Some(FailedMsg(st.last_error[1], st.audit))]
    ELSE LET val == IF st.last_tool_result # None
                    THEN Some(tool_value(st.last_tool_result[1]))
                    ELSE None
         IN  [st EXCEPT !.final_answer = Some(OkMsg(val, st.audit))]

\* A routing function that looks at last_error only
route_after_call_on_error_only(st) ==
    IF TruthyStr(st.last_error) THEN "reflect_retry" ELSE "finalize"

route_after_call(st) ==
    IF Truthy(st.final_answer) THEN "finalize"
    ELSE IF TruthyStr(st.last_error) THEN "reflect_retry"
    ELSE "finalize"

\* ---------------------------------------------------------------------
\* The session: the CLI loop and the steps of the compiled graph
\* ---------------------------------------------------------------------
Init ==
    /\ state = InitialState
    /\ pc = "input"
    /\ branch_write_kept \in BOOLEAN
    /\ turn = 0
    /\ calls = <<>>
    /\ cmd_turn = 0
    /\ cmd_plan = None
    /\ prev_answer = None
    /\ recoveries = 0

\* One line is read; exit/quit leaves the loop
Exit ==
    /\ pc = "input"
    /\ \E line \in UserInputs : Lower(Strip(line)) \in ExitWords
    /\ pc' = "exited"
    /\ UNCHANGED <<state, branch_write_kept, turn, calls, cmd_turn, cmd_plan,
                   prev_answer, recoveries>>

\* A turn loop that clears nothing but the per-turn fields: the plan and
\* the approval state survive a new command
prepare_turn_keeping_plan(st, user_input) ==
    [st EXCEPT !.user_input = user_input,
               !.final_answer = None,
               !.retries = 0,
               !.last_error = None,
               !.last_tool_result = None]

\* The state handed to app.ainvoke for the line user_input
prepare_turn(st, user_input) ==
    LET s1 == [st EXCEPT !.user_input = user_input,
                         !.final_answer = None,
                         !.retries = 0,
                         !.last_error = None,
                         !.last_tool_result = None]
    IN  IF Upper(user_input) \notin ApprovalTokens
        THEN [s1 EXCEPT !.plan = None,
                        !.needs_approval = FALSE,
                        !.approval = None]
        ELSE s1

\* One line is read and the turn's state is prepared before app.ainvoke
UserInput ==
    /\ pc = "input"
    /\ turn < MaxTurns
    /\ Len(calls) < MaxCalls
    /\ \E line \in UserInputs :
         LET user_input == Strip(line)
             fresh == Upper(user_input) \notin ApprovalTokens
         IN  /\ Lower(user_input) \notin ExitWords
             /\ state' = prepare_turn(state, user_input)
             /\ cmd_turn' = IF fresh THEN turn + 1 ELSE cmd_turn
             /\ cmd_plan' = IF fresh THEN None ELSE cmd_plan
             /\ recoveries' = IF fresh THEN 0 ELSE recoveries
    /\ prev_answer' = state.final_answer
    /\ turn' = turn + 1
    /\ pc' = "plan"
    /\ UNCHANGED <<branch_write_kept, calls>>

PlannerStep ==
    /\ pc = "plan"
    /\ state' = planner(state)
    /\ cmd_plan' = IF cmd_turn = turn THEN planner(state).plan ELSE cmd_plan
    /\ pc' = "gate"
    /\ UNCHANGED <<branch_write_kept, turn, calls, cmd_turn, prev_answer,
                   recoveries>>

GateStep ==
    /\ pc = "gate"
    /\ state' = gate_destructive(state)
    /\ pc' = "approval_router"
    /\ UNCHANGED <<branch_write_kept, turn, calls, cmd_turn, cmd_plan,
                   prev_answer, recoveries>>

\* The node, then the conditional edge.  route_after_approval is not a node:
\* the graph runtime hands it the state and uses only the label it returns.
\* Its assignment to final_answer reaches finalize only if the runtime
\* passes the same dict on (branch_write_kept); a runtime that builds the
\* dict of each step from the state channels drops it.
ApprovalRouterStep ==
    /\ pc = "approval_router"
    /\ LET out == approval_router(state)
           r   == route_after_approval(out)
       IN  /\ state' = IF branch_write_kept THEN r.state ELSE out
           /\ pc' = r.next
    /\ UNCHANGED <<branch_write_kept, turn, calls, cmd_turn, cmd_plan,
                   prev_answer, recoveries>>

\* ask_approval, then END: the turn is over and the answer is printed
AskApprovalStep ==
    /\ pc = "ask_approval"
    /\ IF state.plan = None
       THEN pc' = "crashed" /\ state' = state
       ELSE pc' = "input" /\ state' = ask_approval(state)
    /\ UNCHANGED <<branch_write_kept, turn, calls, cmd_turn, cmd_plan,
                   prev_answer, recoveries>>

\* call_tool invokes the planned tool and routes on the outcome
CallToolStep ==
    /\ pc = "call_tool"
    /\ state.plan # None
    /\ \E result \in ToolResults :
         LET out == call_tool(state, result)
         IN  /\ state' = out
             /\ calls' = Append(calls, [turn |-> turn,
                                        tool |-> state.plan[1].tool,
                                        args |-> state.plan[1].args,
                                        result |-> result,
                                        input |-> state.user_input,
                                        needs_approval |-> state.needs_approval,
                                        approval |-> state.approval,
                                        cmd_plan |-> cmd_plan,
                                        cmd_turn |-> cmd_turn,
                                        answered |-> Truthy(state.final_answer)])
             /\ pc' = route_after_call(out)
    /\ UNCHANGED <<branch_write_kept, turn, cmd_turn, cmd_plan, prev_answer,
                   recoveries>>

\* call_tool subscripts a plan that is None: the exception leaves ainvoke
\* and the process
CallToolFault ==
    /\ pc = "call_tool"
    /\ state.plan = None
    /\ pc' = "crashed"
    /\ UNCHANGED <<state, branch_write_kept, turn, calls, cmd_turn, cmd_plan,
                   prev_answer, recoveries>>

\* reflect_retry, then the unconditional edge to call_tool
ReflectRetryStep ==
    /\ pc = "reflect_retry"
    /\ state' = reflect_retry(state)
    /\ recoveries' = IF state'.retries # state.retries
                        \/ state'.plan # state.plan
                        \/ state'.audit # state.audit
                     THEN recoveries + 1 ELSE recoveries
    /\ pc' = "call_tool"
    /\ UNCHANGED <<branch_write_kept, turn, calls, cmd_turn, cmd_plan,
                   prev_answer>>

\* finalize, then END
FinalizeStep ==
    /\ pc = "finalize"
    /\ state' = finalize(state)
    /\ pc' = "input"
    /\ UNCHANGED <<branch_write_kept, turn, calls, cmd_turn, cmd_plan,
                   prev_answer, recoveries>>

Next ==
    \/ Exit
    \/ UserInput
    \/ PlannerStep
    \/ GateStep
    \/ ApprovalRouterStep
    \/ AskApprovalStep
    \/ CallToolStep
    \/ CallToolFault
    \/ ReflectRetryStep
    \/ FinalizeStep

Spec == Init /\ [][Next]_vars

TypeOK ==
    /\ pc \in {"input", "plan", "gate", "approval_router", "ask_approval",
               "call_tool", "reflect_retry", "finalize", "crashed", "exited"}
    /\ turn \in 0..(MaxTurns + 1)
    /\ state.retries \in Nat

\* ---------------------------------------------------------------------
\* Vocabulary of the properties
\* ---------------------------------------------------------------------
\* The turn is over: the answer was printed and the loop waits for a line
TurnEnded == pc = "input" /\ turn > 0

\* The tool calls made in turn t
CallsIn(t) == {i \in 1..Len(calls) : calls[i].turn = t}

IsDestructiveCall(c) == c.tool \in {"delete_file", "update_record"}

CallFailed(c) == c.result.isError

AnswerKind == IF state.final_answer = None THEN "none"
              ELSE state.final_answer[1].kind

\* The previous turn ended by asking for approval
ApprovalPending ==
    prev_answer # None /\ prev_answer[1].kind = "approval_required"

\* 'update <key>' with nothing after the key, or with a rest that has no '='
IsUpdateWithoutPair(text) ==
    /\ Len(text) > 7
    /\ Lower(SubSeq(text, 1, 7)) = <<"u","p","d","a","t","e"," ">>
    /\ LET rest == SubSeq(text, 8, Len(text))
       IN  \/ \A i \in 1..Len(rest) : rest[i] # " "
           \/ LET sp == CHOOSE i \in 1..Len(rest) :
                            rest[i] = " " /\ \A j \in 1..(i-1) : rest[j] # " "
              IN  \A i \in (sp+1)..Len(rest) : rest[i] # "="

\* ---------------------------------------------------------------------
\* C1.  A destructive tool (delete_file, update_record) is invoked only in
\* a turn whose input is APPROVE, with needs_approval true and approval
\* granted, for the plan made by the most recent non-approval command, and
\* never in the turn that made the plan.
\* ---------------------------------------------------------------------
C1_DestructiveOnlyAfterApprove ==
    \A i \in 1..Len(calls) :
        IsDestructiveCall(calls[i]) =>
            /\ Upper(Strip(calls[i].input)) = <<"A","P","P","R","O","V","E">>
            /\ calls[i].needs_approval
            /\ calls[i].approval = Some(TRUE)
            /\ calls[i].cmd_plan = Some(Plan(calls[i].tool, calls[i].args))
            /\ calls[i].turn > calls[i].cmd_turn

C1_Witness ==
    \E i \in 1..Len(calls) :
        /\ calls[i].tool = "delete_file"
        /\ calls[i].args = [path |-> <<"/","a">>]
        /\ calls[i].turn = 2

\* ---------------------------------------------------------------------
\* C2.  When approval was requested in the previous turn and the input is
\* DENY, the turn ends with the answer "Denied by human. No destructive
\* action taken." and without any tool call.
\* ---------------------------------------------------------------------
C2_DenyGivesDeniedAnswer ==
    (TurnEnded /\ ApprovalPending /\ Upper(state.user_input) = DENY) =>
        /\ state.final_answer = Some(DeniedMsg)
        /\ CallsIn(turn) = {}

\* ---------------------------------------------------------------------
\* C3.  A destructive command followed at once by APPROVE: the planned
\* tool is invoked exactly once over the two turns, in the APPROVE turn,
\* with the planned arguments, whether the call succeeds or fails.
\* ---------------------------------------------------------------------
C3_ApprovedPlanInvokedOnce ==
    (/\ TurnEnded
     /\ turn >= 2
     /\ cmd_turn = turn - 1
     /\ cmd_plan # None
     /\ cmd_plan[1].tool \in {"delete_file", "update_record"}
     /\ Upper(state.user_input) = APPROVE) =>
        LET both == CallsIn(turn - 1) \cup CallsIn(turn)
        IN  /\ Cardinality(both) = 1
            /\ \A i \in both :
                   /\ calls[i].turn = turn
                   /\ Plan(calls[i].tool, calls[i].args) = cmd_plan[1]

\* ---------------------------------------------------------------------
\* C4.  For an input 'update <key>' without a field/value pair, or with a
\* rest that has no '=', the turn ends with a clarification as the answer,
\* plan stays unset, no tool is invoked and no fault is raised.
\* ---------------------------------------------------------------------
C4_AmbiguousUpdateClarifies ==
    (turn > 0 /\ IsUpdateWithoutPair(state.user_input)) =>
        /\ pc # "crashed"
        /\ state.plan = None
        /\ CallsIn(turn) = {}
        /\ pc \in {"input", "exited"} =>
               AnswerKind \in {"ambiguous_update", "invalid_update"}

C4_Witness ==
    /\ TurnEnded
    /\ state.user_input = <<"u","p","d","a","t","e"," ","k">>
    /\ AnswerKind = "ambiguous_update"
    /\ prev_answer # None
    /\ prev_answer[1].kind = "invalid_update"

\* ---------------------------------------------------------------------
\* C5.  retries never exceeds MAX_RETRIES (2), and for one originating
\* command at most MAX_RETRIES recovery plans are synthesized.
\* ---------------------------------------------------------------------
C5_RetriesBounded ==
    /\ state.retries <= 2
    /\ recoveries <= 2

C5_Witness ==
    /\ pc = "call_tool"
    /\ state.retries = 1
    /\ recoveries = 1
    /\ state.plan = Some(Plan("search_files", [query |-> <<"m">>]))

\* ---------------------------------------------------------------------
\* C6.  The third failed tool attempt of a command always ends the turn
\* with the exhaustion answer.
\* ---------------------------------------------------------------------
C6_ThirdFailureExhausts ==
    (TurnEnded
       /\ Cardinality({i \in CallsIn(turn) : CallFailed(calls[i])}) >= 3) =>
        AnswerKind = "exhausted"

\* ---------------------------------------------------------------------
\* C7.  A read_file call that fails with "not found" in its error text is
\* followed in the same turn by exactly one recovery attempt: a reflection
\* entry, retries raised by one, and search_files called with the final
\* segment of the path as the query.
\* ---------------------------------------------------------------------
C7_ReadNotFoundRecovers ==
    TurnEnded =>
        \A i \in CallsIn(turn) :
            (/\ calls[i].tool = "read_file"
             /\ CallFailed(calls[i])
             /\ Contains(Lower(tool_error_text(calls[i].result)),
                         <<"n","o","t"," ","f","o","u","n","d">>)) =>
                /\ i + 1 \in CallsIn(turn)
                /\ calls[i+1].tool = "search_files"
                /\ calls[i+1].args
                       = [query |-> Last(Split(calls[i].args.path, "/", -1))]
                /\ state.retries = 1
                /\ \E k \in 1..Len(state.audit) :
                       "reflection" \in DOMAIN state.audit[k]

\* ---------------------------------------------------------------------
\* C8.  When a search_files call succeeds with an empty collection, the
\* turn's answer is the 'could not find an alternative file' message and
\* never a success rendering, for a recovery search and for a search that
\* is the user's own command.
\* ---------------------------------------------------------------------
IsEmptySearch(c) ==
    /\ c.tool = "search_files"
    /\ ~CallFailed(c)
    /\ tool_value(c.result) = ListVal(<<>>)

C8_EmptySearchNeverOk ==
    (TurnEnded /\ \E i \in CallsIn(turn) : IsEmptySearch(calls[i])) =>
        AnswerKind = "empty_search"

C8_Witness ==
    /\ TurnEnded
    /\ turn = 2
    /\ Len(calls) = 3
    /\ calls[1].turn = 1 /\ IsEmptySearch(calls[1])
    /\ calls[2].turn = 2 /\ calls[2].tool = "read_file"
    /\ calls[3].turn = 2 /\ IsEmptySearch(calls[3])

\* ---------------------------------------------------------------------
\* C9.  final_answer is write-once per turn: once a step has set it, no
\* later step of the same turn changes it.
\* ---------------------------------------------------------------------
C9_FinalAnswerWriteOnce ==
    [][(pc # "input" /\ state.final_answer # None)
          => state'.final_answer = state.final_answer]_vars

\* ---------------------------------------------------------------------
\* C10.  Once final_answer is set, neither call_tool nor reflect_retry
\* runs in that turn, and no tool is invoked.
\* ---------------------------------------------------------------------
C10_NoStepAfterAnswer ==
    /\ pc \in {"call_tool", "reflect_retry"} => state.final_answer = None
    /\ \A i \in 1..Len(calls) : ~calls[i].answered

\* ---------------------------------------------------------------------
\* C11.  No fault crosses a component boundary: for every input, also an
\* APPROVE or DENY given when no plan exists, and every tool outcome, the
\* turn ends normally with final_answer set; no step subscripts an absent
\* plan or raises.
\* ---------------------------------------------------------------------
C11_NoFault ==
    /\ pc # "crashed"
    /\ TurnEnded => state.final_answer # None

\* ---------------------------------------------------------------------
\* C12.  A new non-approval command discards the previous plan, approval
\* state and retry count; plan, needs_approval and approval are carried
\* into the next turn exactly when its input is an approval token; so a
\* destructive plan is only ever invoked for the most recent non-approval
\* command, never for one that a later command replaced.
\* ---------------------------------------------------------------------
IsToken(text) ==
    Upper(Strip(text)) \in {<<"A","P","P","R","O","V","E">>, <<"D","E","N","Y">>}

C12_NewCommandDiscardsPlan ==
    /\ [][(pc = "input" /\ pc' = "plan") =>
            /\ state'.retries = 0
            /\ IF IsToken(state'.user_input)
               THEN /\ state'.plan = state.plan
                    /\ state'.needs_approval = state.needs_approval
                    /\ state'.approval = state.approval
               ELSE /\ state'.plan = None
                    /\ state'.needs_approval = FALSE
                    /\ state'.approval = None]_vars
    /\ [](\A i \in 1..Len(calls) :
            IsDestructiveCall(calls[i]) =>
                /\ calls[i].cmd_turn < calls[i].turn
                /\ calls[i].cmd_plan = Some(Plan(calls[i].tool, calls[i].args)))

C12_Witness ==
    /\ pc = "plan"
    /\ turn = 2
    /\ ApprovalPending
    /\ ~IsToken(state.user_input)
    /\ state.plan = None
    /\ state.approval = None

\* ---------------------------------------------------------------------
\* C13.  The audit is reset when a brand-new (non-approval) command
\* begins: at the first step of every turn whose input is not an approval
\* token, audit is empty.
\* ---------------------------------------------------------------------
C13_AuditResetOnNewCommand ==
    (pc = "plan" /\ ~IsToken(state.user_input)) => state.audit = <<>>

\* ---------------------------------------------------------------------
\* C14.  Every failure answer shown to the user (exhausted recovery, no
\* recovery strategy, FAILED, empty search) carries the full audit trail:
\* at the end of the turn the audit rendered in final_answer equals the
\* audit held in the state, so no tool attempt of the turn is missing.
\* ---------------------------------------------------------------------
FailureKinds == {"exhausted", "no_strategy", "failed", "empty_search"}

C14_FailureAnswerHasFullAudit ==
    (TurnEnded /\ AnswerKind \in FailureKinds) =>
        state.final_answer[1].audit = state.audit

\* ---------------------------------------------------------------------
\* C15.  The audit is append-only: every step leaves it unchanged or adds
\* one entry at its end; a tool invocation adds exactly one entry (tool,
\* args, ok true or false), a reflection adds one reflection entry, and
\* entries already there are never changed, removed or reordered.
\* ---------------------------------------------------------------------
IsPrefix(a, b) == Len(a) <= Len(b) /\ SubSeq(b, 1, Len(a)) = a

C15_AuditAppendOnly ==
    [][/\ IsPrefix(state.audit, state'.audit)
       /\ Len(state'.audit) <= Len(state.audit) + 1
       /\ calls' # calls =>
              /\ Len(state'.audit) = Len(state.audit) + 1
              /\ "tool" \in DOMAIN Last(state'.audit)
              /\ Last(state'.audit).tool = Last(calls').tool
              /\ Last(state'.audit).args = Last(calls').args
              /\ Last(state'.audit).ok = ~CallFailed(Last(calls'))
       /\ (calls' = calls /\ Len(state'.audit) = Len(state.audit) + 1) =>
              /\ pc = "reflect_retry"
              /\ "reflection" \in DOMAIN Last(state'.audit)]_vars

C15_Witness ==
    /\ TurnEnded
    /\ Len(state.audit) = 3
    /\ "ok" \in DOMAIN state.audit[1] /\ ~state.audit[1].ok
    /\ "reflection" \in DOMAIN state.audit[2]
    /\ "ok" \in DOMAIN state.audit[3] /\ state.audit[3].ok

\* ---------------------------------------------------------------------
\* C16.  A turn suspends (ends through ask_approval with a request naming
\* the tool and its arguments) if and only if, after gating and approval
\* interpretation, there is no answer, needs_approval is true and approval
\* is undetermined; a suspended turn invokes no tool, records no error and
\* leaves plan, audit and retries unchanged.
\* ---------------------------------------------------------------------
C16_SuspendOnlyWhenUndetermined ==
    /\ [][pc = "approval_router" =>
            (pc' = "ask_approval" <=>
                (/\ state'.final_answer = None
                 /\ state'.needs_approval
                 /\ state'.approval = None))]_vars
    /\ [][pc = "ask_approval" =>
            /\ pc' = "input"
            /\ state'.final_answer =
                   Some([kind |-> "approval_required",
                         tool |-> state.plan[1].tool,
                         args |-> state.plan[1].args])
            /\ state'.plan = state.plan
            /\ state'.last_error = None]_vars
    /\ [][(pc \in {"plan", "gate", "approval_router", "ask_approval"}) =>
            /\ state'.audit = state.audit
            /\ state'.retries = state.retries
            /\ calls' = calls
            /\ (pc # "plan" => state'.plan = state.plan)]_vars
    /\ []((TurnEnded /\ AnswerKind = "approval_required") =>
            /\ CallsIn(turn) = {}
            /\ state.last_error = None
            /\ state.retries = 0
            /\ state.plan = cmd_plan
            /\ state.needs_approval
            /\ state.approval = None)

C16_Witness ==
    /\ TurnEnded
    /\ AnswerKind = "approval_required"
    /\ state.final_answer[1].tool = "update_record"
    /\ Len(state.audit) > 0

\* ---------------------------------------------------------------------
\* C17.  An approval decision is consumed by the turn that reads it: once
\* a pending destructive plan was resolved by an APPROVE or a DENY turn, a
\* further APPROVE with no new command in between invokes no tool.
\* ---------------------------------------------------------------------
C17_ApprovalConsumed ==
    (/\ turn >= 3
     /\ cmd_plan # None
     /\ cmd_plan[1].tool \in {"delete_file", "update_record"}
     /\ cmd_turn <= turn - 2
     /\ Upper(state.user_input) = APPROVE) =>
        CallsIn(turn) = {}

\* ---------------------------------------------------------------------
\* C18.  Every turn terminates: whatever the input and the tool outcomes,
\* the call_tool / reflect_retry loop is left after at most MAX_RETRIES+1
\* reflect_retry steps, and the turn stops after a bounded number of
\* steps: it reaches END, or, only when call_tool was entered without a
\* plan, it stops with that fault.  Stated with a variant: every step of
\* a running turn lowers TurnVariant, which is never negative, and the
\* step after finalize or ask_approval is END.
\* ---------------------------------------------------------------------
InTurn ==
    pc \in {"plan", "gate", "approval_router", "ask_approval", "call_tool",
            "reflect_retry", "finalize"}

\* Each failed call made with no answer set is routed to reflect_retry
ReflectedCalls ==
    {i \in CallsIn(turn) : CallFailed(calls[i]) /\ ~calls[i].answered}

\* The steps a turn can still take, at most
LoopBudget == 2 * (2 + 2)

TurnVariant ==
    LET n == Cardinality(CallsIn(turn))
    IN  CASE pc = "plan"            -> LoopBudget + 5
          [] pc = "gate"            -> LoopBudget + 4
          [] pc = "approval_router" -> LoopBudget + 3
          [] pc = "call_tool"       -> LoopBudget + 2 - 2 * n
          [] pc = "reflect_retry"   -> LoopBudget + 3 - 2 * n
          [] pc = "ask_approval"    -> 1
          [] pc = "finalize"        -> 1
          [] OTHER                  -> 0

C19_NeedsApprovalMatchesPlan ==
    (pc = "call_tool" /\ state.plan # None) =>
        /\ state.needs_approval <=>
               state.plan[1].tool \in {"delete_file", "update_record"}
        /\ state.retries > 0 =>
               state.plan[1].tool \notin {"delete_file", "update_record"}

C19_Witness ==
    /\ pc = "call_tool"
    /\ turn = 2
    /\ state.retries = 1
    /\ state.last_tool = Some("read_file")
    /\ state.plan # None
    /\ state.plan[1].tool = "search_files"
    /\ ~state.needs_approval
    /\ ApprovalPending

\* ---------------------------------------------------------------------
\* C20.  'OK: <value>' is the answer only of a turn that invoked a tool
\* and whose most recent invocation succeeded (last_error absent,
\* last_tool_result present); a turn without a tool call, or whose last
\* attempt failed, never ends with a success rendering.
\* ---------------------------------------------------------------------
C20_OkOnlyAfterSuccess ==
    (TurnEnded /\ AnswerKind = "ok") =>
        /\ CallsIn(turn) # {}
        /\ calls[Len(calls)].turn = turn
        /\ ~CallFailed(calls[Len(calls)])
        /\ state.last_error = None
        /\ state.last_tool_result # None

====
